---- MODULE Spec2Model ----
(***************************************************************************)
(* Merkle proof verification of ibc-core/ics23-commitment/types            *)
(* (src/merkle.rs): MerkleProof::verify_membership,                        *)
(* MerkleProof::verify_non_membership and calculate_non_existence_root.    *)
(*                                                                         *)
(* Both operations are pure functions of their arguments.  The model draws *)
(* the arguments of one call in Init and applies the function in one       *)
(* action; the function itself is an operator that follows the source      *)
(* statement by statement and also returns what it did on the way (the     *)
(* levels whose proof it matched, the calls it made to the ics23 engine,   *)
(* the statement that produced the result).                                *)
(*                                                                         *)
(* Indices are the source's 0-based indices; At(s, i) reads s[i + 1].      *)
(***************************************************************************)
EXTENDS Integers, Sequences, FiniteSets, TLC

\* ------------------------------------------------------------------ bounds

\* the longest proof list (and spec list, and key path) a call is given
MaxProofs == 2

\* the byte values byte strings are made of (all < 128, so that a string's
\* UTF-8 bytes are its characters)
ByteVals == {1, 2}

\* ------------------------------------------------------------ value types

At(s, i) == s[i + 1]

\* Option<T>: None is <<>>, Some(x) is <<x>>
None == <<>>
Some(x) == <<x>>

\* Vec<u8>: the empty vector and the one-byte vectors over ByteVals
NonEmptyBytes == {<<b>> : b \in ByteVals}
Bytes == {<<>>} \cup NonEmptyBytes

\* String (a key of MerklePath.key_path); as_bytes() is the string's bytes
Keys == NonEmptyBytes
as_bytes(key) == [j \in 1..Len(key) |-> key[j]]

\* lexicographic order of byte strings (Ord for [u8])
RECURSIVE BytesLess(_, _)
BytesLess(a, b) ==
    IF b = <<>> THEN FALSE
    ELSE IF a = <<>> THEN TRUE
    ELSE IF Head(a) # Head(b) THEN Head(a) < Head(b)
    ELSE BytesLess(Tail(a), Tail(b))

\* ics23::ProofSpec, identified by the tree kind it describes
Specs == {"iavl", "tendermint"}

\* ics23::ExistenceProof.  leaf is the spec the fragment's leaf and inner
\* operations conform to ("NoLeaf": the leaf operation is missing); root is
\* what applying those operations to key and value evaluates to.
ExistenceProof(key, value, leaf, rt) ==
    [key |-> key, value |-> value, leaf |-> leaf, root |-> rt]

\* ics23::NonExistenceProof: the two optional neighbours; adj says whether
\* their inner paths are adjacent (left-most, right-most or neighbours)
NonExistenceProof(left, right, adj) ==
    [left |-> left, right |-> right, adj |-> adj]

\* ics23::CommitmentProof { proof: Option<Proof> }
ProofExist(ep) == [variant |-> "Exist", exist |-> Some(ep), nonexist |-> None]
ProofNonexist(nep) == [variant |-> "Nonexist", exist |-> None, nonexist |-> Some(nep)]
ProofUnset == [variant |-> "None", exist |-> None, nonexist |-> None]

\* start_index: u64, written hi * 2^32 + lo
U64(hi, lo) == [hi |-> hi, lo |-> lo]

\* the widths of usize the crate is built for
UsizeBits == {32, 64}

\* ------------------------------------------------- the ics23 proof engine
\* (the ics23 crate: called by merkle.rs, not part of it)

\* ics23::calculate_existence_root: Err (None) when key or value is empty or
\* the leaf operation is missing, else the root the fragment evaluates to
calculate_existence_root(ep) ==
    IF ep.key = <<>> \/ ep.value = <<>> \/ ep.leaf = "NoLeaf"
    THEN None
    ELSE Some(ep.root)

\* ics23::verify_existence: the fragment conforms to the spec, carries the
\* key and the value, and evaluates to the expected root
verify_existence(ep, spec, rt, key, value) ==
    /\ ep.leaf = spec
    /\ ep.key = key
    /\ ep.value = value
    /\ calculate_existence_root(ep) = Some(rt)

\* ics23::verify_membership
ics23_verify_membership(proof, spec, rt, key, value) ==
    /\ proof.variant = "Exist"
    /\ verify_existence(proof.exist[1], spec, rt, key, value)

\* ics23::verify_non_existence: each neighbour present is a member under the
\* root and lies on its side of the key; the neighbours are adjacent
verify_non_existence(nep, spec, rt, key) ==
    /\ nep.left # None =>
         LET l == nep.left[1] IN
         verify_existence(l, spec, rt, l.key, l.value) /\ BytesLess(l.key, key)
    /\ nep.right # None =>
         LET r == nep.right[1] IN
         verify_existence(r, spec, rt, r.key, r.value) /\ BytesLess(key, r.key)
    /\ nep.left # None \/ nep.right # None
    /\ nep.adj

\* ics23::verify_non_membership
ics23_verify_non_membership(proof, spec, rt, key) ==
    /\ proof.variant = "Nonexist"
    /\ verify_non_existence(proof.nonexist[1], spec, rt, key)

\* ------------------------------------------------------------- merkle.rs

\* what a call returns and what it did: the result (Ok, a CommitmentError or
\* Panic), the statement that produced it, the levels whose proof was
\* matched and the calls made to the engine's membership checks
Out(result, site, examined, calls) ==
    [result |-> result, site |-> site, examined |-> examined, calls |-> calls]

Call(fn, proof, spec, rt, key, value) ==
    [fn |-> fn, proof |-> proof, spec |-> spec, root |-> rt, key |-> key,
     value |-> value]

\* Rev left out: the key path is not reversed
Rev_missing(s) == s

\* Iterator::rev
Rev(s) == [j \in 1..Len(s) |-> s[Len(s) + 1 - j]]

Min(a, b) == IF a <= b THEN a ELSE b

\* proofs.iter().zip(specs.iter()).zip(key_path.iter().rev()), each item with
\* the index of its proof
Zip(proofs, specs, keys) ==
    [j \in 1..Min(Len(proofs), Min(Len(specs), Len(keys))) |->
        [level |-> j - 1, proof |-> proofs[j], spec |-> specs[j],
         key |-> Rev(keys)[j]]]

\* u64 -> usize (TryFrom): None when the value does not fit the width
try_into_usize(start_index, bits) ==
    IF bits = 32 /\ start_index.hi > 0 THEN None ELSE Some(start_index)

\* Skip off by one: one item too few is skipped
Skip_one_less(items, n) ==
    IF n.hi > 0 \/ n.lo > Len(items)
    THEN <<>>
    ELSE IF n.lo = 0 THEN items
    ELSE SubSeq(items, n.lo, Len(items))

\* Iterator::skip(n)
Skip(items, n) ==
    IF n.hi > 0 \/ n.lo >= Len(items)
    THEN <<>>
    ELSE SubSeq(items, n.lo + 1, Len(items))

\* next_value forgotten: the value is not replaced by the subroot
next_value_stale(subroot, value) == value

\* value = subroot.clone(): the value proven at the next level
next_value(subroot, value) == subroot

\* wrong_variant confused: the wrong variant reported as a failed check
wrong_variant_as_failure == "VerificationFailure"

\* the error of a proof that is not of the variant the level needs
wrong_variant == "InvalidMerkleProof"

\* the for loop of verify_membership over the items left: done says whether
\* every item passed, subroot is the last subroot, out is the early return
RECURSIVE verify_membership_loop(_, _, _, _, _)
verify_membership_loop(items, subroot, value, examined, calls) ==
    IF items = <<>>
    THEN [done |-> TRUE, subroot |-> subroot,
          out |-> Out("Ok", "return", examined, calls)]
    ELSE
      LET it == Head(items)
          seen == Append(examined, it.level)
          fail(o) == [done |-> FALSE, subroot |-> subroot, out |-> o]
      IN
      IF it.proof.variant = "Exist"
      THEN
        LET calc == calculate_existence_root(it.proof.exist[1]) IN
        IF calc = None
        THEN fail(Out("InvalidMerkleProof", "calculate_existence_root", seen, calls))
        ELSE
          LET sub == calc[1]
              made == Append(calls,
                        Call("verify_membership", it.proof, it.spec, sub,
                             as_bytes(it.key), value))
          IN
          IF ~ics23_verify_membership(it.proof, it.spec, sub, as_bytes(it.key), value)
          THEN fail(Out("VerificationFailure", "verify_membership", seen, made))
          ELSE verify_membership_loop(Tail(items), sub, next_value(sub, value),
                                      seen, made)
      ELSE fail(Out(wrong_variant, "variant", seen, calls))

\* validate_membership_arguments reordered: the root is checked after the
\* two counts
validate_membership_arguments_root_late(proofs, specs, rt, keys, value) ==
    IF Len(proofs) = 0 THEN Some("EmptyMerkleProof")
    ELSE IF Len(specs) # Len(proofs) THEN Some("NumberOfSpecsMismatch")
    ELSE IF Len(keys) # Len(proofs) THEN Some("NumberOfKeysMismatch")
    ELSE IF rt = <<>> THEN Some("EmptyMerkleRoot")
    ELSE IF value = <<>> THEN Some("EmptyVerifiedValue")
    ELSE None

\* "validate arguments" of verify_membership: the error of the first check
\* that fails, None when all pass
validate_membership_arguments(proofs, specs, rt, keys, value) ==
    IF Len(proofs) = 0 THEN Some("EmptyMerkleProof")
    ELSE IF rt = <<>> THEN Some("EmptyMerkleRoot")
    ELSE IF Len(specs) # Len(proofs) THEN Some("NumberOfSpecsMismatch")
    ELSE IF Len(keys) # Len(proofs) THEN Some("NumberOfKeysMismatch")
    ELSE IF value = <<>> THEN Some("EmptyVerifiedValue")
    ELSE None

\* MerkleProof::verify_membership
verify_membership(proofs, specs, rt, keys, value, start_index, bits) ==
    LET err == validate_membership_arguments(proofs, specs, rt, keys, value) IN
    IF err # None
    THEN Out(err[1], "precondition", <<>>, <<>>)
    ELSE
      LET n == try_into_usize(start_index, bits) IN
      IF n = None
      THEN Out("Panic", "try_into", <<>>, <<>>)
      ELSE
        LET r == verify_membership_loop(Skip(Zip(proofs, specs, keys), n[1]),
                                        value, value, <<>>, <<>>)
        IN
        IF ~r.done
        THEN r.out
        ELSE IF rt # r.subroot
        THEN Out("VerificationFailure", "root", r.out.examined, r.out.calls)
        ELSE r.out

\* calculate_non_existence_root reversed: the right neighbour is preferred
calculate_non_existence_root_right_first(nep) ==
    IF nep.right # None
    THEN calculate_existence_root(nep.right[1])
    ELSE IF nep.left # None
    THEN calculate_existence_root(nep.left[1])
    ELSE None

\* calculate_non_existence_root: None stands for Err(InvalidMerkleProof)
calculate_non_existence_root(nep) ==
    IF nep.left # None
    THEN calculate_existence_root(nep.left[1])
    ELSE IF nep.right # None
    THEN calculate_existence_root(nep.right[1])
    ELSE None

\* validate_non_membership_arguments reordered: the key count is checked
\* before the spec count
validate_non_membership_arguments_keys_first(proofs, specs, rt, keys) ==
    IF Len(proofs) = 0 THEN Some("EmptyMerkleProof")
    ELSE IF rt = <<>> THEN Some("EmptyMerkleRoot")
    ELSE IF Len(keys) # Len(proofs) THEN Some("NumberOfKeysMismatch")
    ELSE IF Len(specs) # Len(proofs) THEN Some("NumberOfSpecsMismatch")
    ELSE None

\* "validate arguments" of verify_non_membership
validate_non_membership_arguments(proofs, specs, rt, keys) ==
    IF Len(proofs) = 0 THEN Some("EmptyMerkleProof")
    ELSE IF rt = <<>> THEN Some("EmptyMerkleRoot")
    ELSE IF Len(specs) # Len(proofs) THEN Some("NumberOfSpecsMismatch")
    ELSE IF Len(keys) # Len(proofs) THEN Some("NumberOfKeysMismatch")
    ELSE None

\* lowest_key misplaced: the first key of the path is taken
lowest_key_first(keys, num) == At(keys, 0)

\* keys.key_path.get(num - 1): the key of the lowest level
lowest_key(keys, num) == At(keys, num - 1)

\* the start_index verify_non_membership passes to verify_membership
upper_levels_start == U64(0, 1)

\* MerkleProof::verify_non_membership
verify_non_membership(proofs, specs, rt, keys, bits) ==
    LET err == validate_non_membership_arguments(proofs, specs, rt, keys) IN
    IF err # None
    THEN Out(err[1], "precondition", <<>>, <<>>)
    ELSE
      LET num == Len(proofs)
          proof == At(proofs, 0)
          spec == At(specs, 0)
          key == lowest_key(keys, num)
      IN
      IF proof.variant = "Nonexist"
      THEN
        LET calc == calculate_non_existence_root(proof.nonexist[1]) IN
        IF calc = None
        THEN Out("InvalidMerkleProof", "calculate_non_existence_root", <<0>>, <<>>)
        ELSE
          LET subroot == calc[1]
              made == <<Call("verify_non_membership", proof, spec, subroot,
                             as_bytes(key), <<>>)>>
          IN
          IF ~ics23_verify_non_membership(proof, spec, subroot, as_bytes(key))
          THEN Out("VerificationFailure", "verify_non_membership", <<0>>, made)
          ELSE
            LET r == verify_membership(proofs, specs, rt, keys, subroot,
                                       upper_levels_start, bits)
            IN Out(r.result, r.site, <<0>> \o r.examined, made \o r.calls)
      ELSE Out(wrong_variant, "variant", <<0>>, <<>>)

\* ------------------------------------------------------------ the inputs

\* the key of the leaf-level fragments, the key of the fragments above, and
\* the keys of the left and right neighbours of the leaf key
LeafKey == <<2>>
StoreKey == <<1>>
LeftKey == <<1>>
RightKey == <<2, 1>>

LevelKey(i) == IF i = 0 THEN LeafKey ELSE StoreKey
LevelSpec(i) == IF i = 0 THEN "iavl" ELSE "tendermint"

\* existence fragments of level i: every value and root, and one fragment
\* whose leaf operation is missing
ExistFrags(i) ==
    {ExistenceProof(LevelKey(i), v, LevelSpec(i), r) :
        v \in NonEmptyBytes, r \in NonEmptyBytes}
    \cup {ExistenceProof(LevelKey(i), <<1>>, "NoLeaf", <<1>>)}

\* neighbours of a non-existence fragment
LeftFrags ==
    {None} \cup {Some(ExistenceProof(LeftKey, <<1>>, "iavl", r)) : r \in NonEmptyBytes}
    \cup {Some(ExistenceProof(LeftKey, <<1>>, "NoLeaf", <<1>>))}
RightFrags ==
    {None} \cup {Some(ExistenceProof(RightKey, <<1>>, "iavl", r)) : r \in NonEmptyBytes}
    \cup {Some(ExistenceProof(RightKey, <<1>>, "NoLeaf", <<1>>))}

NonexistFrags ==
    {NonExistenceProof(l, r, TRUE) : l \in LeftFrags, r \in RightFrags}
    \cup {NonExistenceProof(Some(ExistenceProof(LeftKey, <<1>>, "iavl", <<1>>)),
                            None, FALSE)}

\* one non-existence fragment, for the levels where only the variant counts
SomeNonexist ==
    NonExistenceProof(Some(ExistenceProof(LeftKey, <<1>>, "iavl", <<1>>)), None, TRUE)

\* the proofs a membership call is given at level i
MemberProofs(i) ==
    {ProofExist(ep) : ep \in ExistFrags(i)}
    \cup {ProofNonexist(SomeNonexist), ProofUnset}

\* the proofs a non-membership call is given at level i
NonMemberProofs(i) ==
    IF i = 0
    THEN {ProofNonexist(nep) : nep \in NonexistFrags}
         \cup {ProofExist(ExistenceProof(LeafKey, <<1>>, "iavl", <<1>>)), ProofUnset}
    ELSE MemberProofs(i)

\* the values of start_index: the small ones and 2^32
StartIndices == {U64(0, lo) : lo \in 0..MaxProofs} \cup {U64(1, 0)}

Lists(n, S(_)) == {s \in [1..n -> UNION {S(i) : i \in 0..n-1}] :
                     \A j \in 1..n : s[j] \in S(j - 1)}
AllSpecs(i) == Specs
AllKeys(i) == Keys

\* ----------------------------------------------------------- the machine

VARIABLES
    op,           \* the operation called
    proofs,       \* self.proofs, leaf to root
    specs,        \* specs, as Vec<ics23::ProofSpec>
    root,         \* root.hash
    keys,         \* keys.key_path, root to leaf
    value,        \* value (verify_membership only)
    start_index,  \* start_index (verify_membership only)
    usize_bits,   \* the width of usize of the build
    pc,           \* "called" or "returned"
    out           \* what the call returned and did

vars == <<op, proofs, specs, root, keys, value, start_index, usize_bits, pc, out>>

Pending == Out("Pending", "none", <<>>, <<>>)

\* a call whose three lists have the same length
InitChain ==
    \E n \in 1..MaxProofs :
        /\ \/ /\ op = "verify_membership"
              /\ proofs \in Lists(n, MemberProofs)
              /\ value \in NonEmptyBytes
              /\ start_index \in StartIndices
           \/ /\ op = "verify_non_membership"
              /\ proofs \in Lists(n, NonMemberProofs)
              /\ value = <<>>
              /\ start_index = U64(0, 0)
        /\ specs \in Lists(n, AllSpecs)
        /\ keys \in Lists(n, AllKeys)
        /\ root \in NonEmptyBytes

\* the proofs of a call whose lists may differ in length
ShapeProofs(i) ==
    {ProofExist(ExistenceProof(LevelKey(i), <<1>>, LevelSpec(i), <<1>>)), ProofUnset}

\* a call whose three lists have any lengths, the root and the value empty
\* or not
InitShape ==
    \E n \in 0..MaxProofs, m \in 0..MaxProofs, k \in 0..MaxProofs :
        /\ proofs \in Lists(n, ShapeProofs)
        /\ specs \in Lists(m, AllSpecs)
        /\ keys \in Lists(k, AllKeys)
        /\ root \in Bytes
        /\ \/ /\ op = "verify_membership"
              /\ value \in Bytes
              /\ start_index \in {U64(0, 0), U64(1, 0)}
           \/ /\ op = "verify_non_membership"
              /\ value = <<>>
              /\ start_index = U64(0, 0)

Init ==
    /\ InitChain \/ InitShape
    /\ usize_bits \in UsizeBits
    /\ pc = "called"
    /\ out = Pending

VerifyMembership ==
    /\ pc = "called"
    /\ op = "verify_membership"
    /\ out' = verify_membership(proofs, specs, root, keys, value, start_index,
                                usize_bits)
    /\ pc' = "returned"
    /\ UNCHANGED <<op, proofs, specs, root, keys, value, start_index, usize_bits>>

VerifyNonMembership ==
    /\ pc = "called"
    /\ op = "verify_non_membership"
    /\ out' = verify_non_membership(proofs, specs, root, keys, usize_bits)
    /\ pc' = "returned"
    /\ UNCHANGED <<op, proofs, specs, root, keys, value, start_index, usize_bits>>

Next == VerifyMembership \/ VerifyNonMembership

Spec == Init /\ [][Next]_vars

\* ----------------------------------------------------------- the claims

Returned == pc = "returned"
IsMembership == op = "verify_membership"
IsNonMembership == op = "verify_non_membership"

\* the numbers of the preconditions the call's arguments violate
ViolatedPreconditions ==
    {c \in 1..5 :
        \/ c = 1 /\ Len(proofs) = 0
        \/ c = 2 /\ root = <<>>
        \/ c = 3 /\ Len(specs) # Len(proofs)
        \/ c = 4 /\ Len(keys) # Len(proofs)
        \/ c = 5 /\ IsMembership /\ value = <<>>}

PreconditionError(c) ==
    CASE c = 1 -> "EmptyMerkleProof"
      [] c = 2 -> "EmptyMerkleRoot"
      [] c = 3 -> "NumberOfSpecsMismatch"
      [] c = 4 -> "NumberOfKeysMismatch"
      [] c = 5 -> "EmptyVerifiedValue"

Lowest(S) == CHOOSE c \in S : \A d \in S : c <= d

\* the first level the loop of verify_membership processes: the number of
\* proofs when start_index skips them all
FirstLevel ==
    IF start_index.hi > 0 \/ start_index.lo >= Len(proofs)
    THEN Len(proofs)
    ELSE start_index.lo

\* the subroot the existence fragment of level i recomputes
SubrootAt(i) == calculate_existence_root(At(proofs, i).exist[1])[1]

\* C1: both operations return the error of the lowest-numbered precondition
\* the arguments violate (1 empty proof list, 2 empty root, 3 spec count,
\* 4 key count, 5 empty value, the last for verify_membership only), before
\* any proof is examined; no precondition error is returned when none is
\* violated.
C1_PreconditionOrder ==
    Returned =>
        IF ViolatedPreconditions # {}
        THEN /\ out.result = PreconditionError(Lowest(ViolatedPreconditions))
             /\ out.examined = <<>>
             /\ out.calls = <<>>
        ELSE out.site # "precondition"

\* a membership call with an empty root, a spec count mismatch, an empty
\* value and an unset proof, answered EmptyMerkleRoot
C1_Witness ==
    /\ Returned /\ IsMembership
    /\ {2, 3, 5} \subseteq ViolatedPreconditions
    /\ \E j \in 1..Len(proofs) : proofs[j] = ProofUnset
    /\ out.result = "EmptyMerkleRoot"

\* C2: verify_membership processes the levels from start_index upwards in
\* increasing order and calls the engine's membership check at level i with
\* proof i, spec i, the key at position n-1-i, the subroot proof i recomputes
\* as root, and as value the caller's value at the first processed level and
\* the subroot of level i-1 afterwards.
C2_EngineCalls ==
    (Returned /\ IsMembership /\ ViolatedPreconditions = {}) =>
        LET n == Len(proofs)
            seen == out.examined
            made == out.calls
        IN
        /\ \A j \in 1..Len(seen) : seen[j] = FirstLevel + j - 1
        /\ Len(seen) <= n - FirstLevel
        /\ out.site \in {"root", "return"} => Len(seen) = n - FirstLevel
        /\ Len(made) = IF out.site \in {"variant", "calculate_existence_root"}
                       THEN Len(seen) - 1
                       ELSE Len(seen)
        /\ \A j \in 1..Len(made) :
              LET i == FirstLevel + j - 1 IN
              made[j] = Call("verify_membership", At(proofs, i), At(specs, i),
                             SubrootAt(i), At(keys, n - 1 - i),
                             IF j = 1 THEN value ELSE SubrootAt(i - 1))

\* a two-level chain accepted from level 0, its two keys and its two specs
\* different
C2_Witness ==
    /\ Returned /\ IsMembership
    /\ Len(proofs) = 2 /\ start_index = U64(0, 0)
    /\ out.result = "Ok" /\ Len(out.calls) = 2
    /\ keys[1] # keys[2] /\ specs[1] # specs[2]
    /\ SubrootAt(0) # value

\* the reference subroot of the non-existence proof at index 0
ReferenceSubroot == calculate_non_existence_root(At(proofs, 0).nonexist[1])

\* the engine confirms the absence of the last key of the key path against
\* the reference subroot under the spec at index 0
AbsenceConfirmed ==
    /\ ReferenceSubroot # None
    /\ ics23_verify_non_membership(At(proofs, 0), At(specs, 0), ReferenceSubroot[1],
                                   At(keys, Len(keys) - 1))

\* verify_membership of the levels from index 1 with the reference subroot
\* as value
UpperLevels ==
    verify_membership(proofs, specs, root, keys, ReferenceSubroot[1], U64(0, 1),
                      usize_bits)

\* C3: once preconditions 1-4 hold, verify_non_membership returns Ok exactly
\* when proof 0 is Nonexist, the engine confirms the absence of the last key
\* against the reference subroot under spec 0, and verify_membership with
\* value = subroot and start_index = 1 returns Ok; when the first two hold
\* its result is the result of that call; a one-level proof is accepted only
\* if the reference subroot is the root.
C3_NonMembership ==
    (Returned /\ IsNonMembership /\ ViolatedPreconditions = {}) =>
        LET nonexist == At(proofs, 0).variant = "Nonexist" IN
        /\ out.result = "Ok" <=>
              (nonexist /\ AbsenceConfirmed /\ UpperLevels.result = "Ok")
        /\ (nonexist /\ AbsenceConfirmed) => out.result = UpperLevels.result
        /\ (out.result = "Ok" /\ Len(proofs) = 1) => ReferenceSubroot = Some(root)

\* a two-level non-membership proof with both neighbours, accepted
C3_Witness ==
    /\ Returned /\ IsNonMembership
    /\ Len(proofs) = 2
    /\ At(proofs, 0).variant = "Nonexist"
    /\ At(proofs, 0).nonexist[1].left # None
    /\ At(proofs, 0).nonexist[1].right # None
    /\ out.result = "Ok"
    /\ keys[1] # keys[2]

\* start_index is at or beyond the number of proofs
SkipsAll == start_index.hi > 0 \/ start_index.lo >= Len(proofs)

\* C4: with the five preconditions met and start_index beyond the proof
\* list, verify_membership examines no proof and returns Ok when value is
\* the root and VerificationFailure otherwise.
C4_ZeroIterations ==
    (Returned /\ IsMembership /\ ViolatedPreconditions = {} /\ SkipsAll) =>
        /\ out.examined = <<>>
        /\ out.calls = <<>>
        /\ out.result = IF value = root THEN "Ok" ELSE "VerificationFailure"

\* C5 as stated: a spec count that differs from the proof count always gives
\* NumberOfSpecsMismatch and a key count that differs always gives
\* NumberOfKeysMismatch, whatever the proofs, root, value and start_index.
C5_AsStated ==
    Returned =>
        /\ Len(specs) # Len(proofs) => out.result = "NumberOfSpecsMismatch"
        /\ Len(keys) # Len(proofs) => out.result = "NumberOfKeysMismatch"

\* C5 amended: with a non-empty proof list and a non-empty root, a spec
\* count that differs from the proof count gives NumberOfSpecsMismatch; with
\* the spec count equal besides, a key count that differs gives
\* NumberOfKeysMismatch; whatever the proofs, the value and start_index.
C5_MismatchErrors ==
    (Returned /\ Len(proofs) # 0 /\ root # <<>>) =>
        /\ Len(specs) # Len(proofs) => out.result = "NumberOfSpecsMismatch"
        /\ (Len(specs) = Len(proofs) /\ Len(keys) # Len(proofs)) =>
              out.result = "NumberOfKeysMismatch"

\* a membership call with a key count mismatch, an unset proof, an empty
\* value and start_index 2^32, answered NumberOfKeysMismatch
C5_Witness ==
    /\ Returned /\ IsMembership
    /\ Len(proofs) # 0 /\ root # <<>>
    /\ Len(specs) = Len(proofs) /\ Len(keys) # Len(proofs)
    /\ \E j \in 1..Len(proofs) : proofs[j] = ProofUnset
    /\ value = <<>> /\ start_index = U64(1, 0)
    /\ out.result = "NumberOfKeysMismatch"

\* the proofs with the existence fragment of level i replaced by ep
Altered(i, ep) == [proofs EXCEPT ![i + 1] = ProofExist(ep)]

\* the existence fragments that recompute a subroot other than level i's
Alterations(i) ==
    IF At(proofs, i).variant # "Exist"
    THEN {}
    ELSE {ep \in ExistFrags(i) :
            /\ calculate_existence_root(ep) # None
            /\ calculate_existence_root(At(proofs, i).exist[1]) # None
            /\ calculate_existence_root(ep)
                 # calculate_existence_root(At(proofs, i).exist[1])}

\* verify_membership of the chain with level i altered to ep
AlteredOut(i, ep) ==
    verify_membership(Altered(i, ep), specs, root, keys, value, start_index,
                      usize_bits)

AcceptedChain ==
    Returned /\ IsMembership /\ out.result = "Ok" /\ Len(proofs) >= 2

\* C6 as stated, for a chain verified from level 0: altering the existence
\* fragment of a level below the top of an accepted multi-level chain, so
\* that it recomputes another subroot, gives VerificationFailure at the final
\* root comparison.
C6_AsStated ==
    (AcceptedChain /\ start_index = U64(0, 0)) =>
        \A i \in 0..Len(proofs) - 2 : \A ep \in Alterations(i) :
            /\ AlteredOut(i, ep).result = "VerificationFailure"
            /\ AlteredOut(i, ep).site = "root"

\* C6 amended: altering the existence fragment of a processed level i
\* (start_index <= i < n) of an accepted multi-level chain, so that it
\* recomputes another subroot, gives VerificationFailure and never Ok: from
\* the engine's membership check of level i or of level i+1, and from the
\* final root comparison only when i is the top level.  A level below
\* start_index is not examined and its alteration leaves the result Ok.
C6_AlterationRejected ==
    AcceptedChain =>
        \A i \in 0..Len(proofs) - 1 : \A ep \in Alterations(i) :
            LET r == AlteredOut(i, ep) IN
            IF i < FirstLevel
            THEN r.result = "Ok"
            ELSE /\ r.result = "VerificationFailure"
                 /\ \/ /\ r.site = "verify_membership"
                       /\ r.examined[Len(r.examined)] \in {i, i + 1}
                    \/ /\ r.site = "root"
                       /\ i = Len(proofs) - 1

\* a two-level chain accepted from level 0 whose leaf level has an
\* alteration that passes its own level and is rejected at the level above
C6_Witness ==
    /\ AcceptedChain
    /\ start_index = U64(0, 0)
    /\ \E ep \in Alterations(0) :
          /\ AlteredOut(0, ep).result = "VerificationFailure"
          /\ AlteredOut(0, ep).examined = <<0, 1>>

\* the levels at or after start_index
LevelsFromStart == FirstLevel..Len(proofs) - 1

\* C7: a wrong proof variant is reported as InvalidMerkleProof, never as
\* VerificationFailure or Ok.  A call that stops at a level whose proof is
\* not of the variant the level needs (Nonexist at level 0 of
\* verify_non_membership, Exist everywhere else) returns InvalidMerkleProof,
\* and a call that returns Ok or VerificationFailure met only proofs of the
\* needed variant.  In verify_membership a proof at or after start_index that
\* is not Exist stops the call at its level with InvalidMerkleProof, unless a
\* level before it stopped the call with one of the two errors.  In
\* verify_non_membership a proof 0 that is not Nonexist gives
\* InvalidMerkleProof.
C7_WrongVariant ==
    (Returned /\ ViolatedPreconditions = {}) =>
        LET seen == out.examined
            last == seen[Len(seen)]
            needs(i) == IF IsNonMembership /\ i = 0 THEN "Nonexist" ELSE "Exist"
        IN
        /\ (seen # <<>> /\ At(proofs, last).variant # needs(last)) =>
              out.result = "InvalidMerkleProof"
        /\ out.result \in {"Ok", "VerificationFailure"} =>
              \A j \in 1..Len(seen) : At(proofs, seen[j]).variant = needs(seen[j])
        /\ (IsMembership /\ out.result = "Ok") =>
              \A i \in LevelsFromStart : At(proofs, i).variant = "Exist"
        /\ IsNonMembership =>
              /\ seen # <<>> /\ seen[1] = 0
              /\ At(proofs, 0).variant # "Nonexist" => out.result = "InvalidMerkleProof"
              /\ out.result = "Ok" =>
                    \A i \in 1..Len(proofs) - 1 : At(proofs, i).variant = "Exist"
        /\ IsMembership =>
              \A i \in LevelsFromStart :
                  At(proofs, i).variant # "Exist" =>
                      /\ seen # <<>> /\ last <= i
                      /\ out.result \in {"InvalidMerkleProof", "VerificationFailure"}
                      /\ last = i => out.result = "InvalidMerkleProof"

\* a membership call stopped by a Nonexist proof at level 1 after level 0
\* passed
C7_Witness ==
    /\ Returned /\ IsMembership
    /\ Len(proofs) = 2
    /\ out.examined = <<0, 1>>
    /\ At(proofs, 1).variant = "Nonexist"
    /\ out.result = "InvalidMerkleProof"

\* C8: the reference subroot is the root the left neighbour recomputes
\* whenever the left neighbour is present (a left neighbour that recomputes
\* none gives InvalidMerkleProof, whatever the right one is); it is the root
\* the right neighbour recomputes only when the left is absent; with both
\* absent the result is InvalidMerkleProof.
C8_ReferenceSubroot ==
    (Returned /\ IsNonMembership /\ ViolatedPreconditions = {}
       /\ At(proofs, 0).variant = "Nonexist") =>
        LET nep == At(proofs, 0).nonexist[1]
            from == IF nep.left # None THEN nep.left
                    ELSE IF nep.right # None THEN nep.right
                    ELSE None
        IN
        IF from = None \/ calculate_existence_root(from[1]) = None
        THEN out.result = "InvalidMerkleProof" /\ out.calls = <<>>
        ELSE /\ out.calls # <<>>
             /\ out.calls[1].fn = "verify_non_membership"
             /\ out.calls[1].root = calculate_existence_root(from[1])[1]

\* both neighbours present and recomputing different roots: the engine is
\* asked about the left one's
C8_Witness ==
    /\ Returned /\ IsNonMembership /\ ViolatedPreconditions = {}
    /\ At(proofs, 0).variant = "Nonexist"
    /\ LET nep == At(proofs, 0).nonexist[1] IN
       /\ nep.left # None /\ nep.right # None
       /\ calculate_existence_root(nep.left[1]) # None
       /\ calculate_existence_root(nep.right[1]) # None
       /\ calculate_existence_root(nep.left[1]) # calculate_existence_root(nep.right[1])
       /\ out.calls[1].root = nep.left[1].root

\* C9: for every start_index of the u64 range and every width of usize the
\* call does not abort, and a start_index above the usize maximum skips all
\* levels as a start_index equal to the proof count does.
C9_ConversionSafe ==
    (Returned /\ IsMembership) =>
        /\ out.result # "Panic"
        /\ start_index.hi > 0 =>
              out = verify_membership(proofs, specs, root, keys, value,
                                      U64(0, Len(proofs)), usize_bits)

\* the proof, spec and key that stand for a level below start_index
FillerProof == ProofUnset
FillerSpec == "iavl"
FillerKey == <<1>>

\* the lists with every level below start_index replaced by the filler (the
\* key of level i is the one at position n-1-i)
Levelled(list, filler, reversed) ==
    [j \in 1..Len(list) |->
        LET i == IF reversed THEN Len(list) - j ELSE j - 1 IN
        IF i < FirstLevel /\ Len(list) = Len(proofs) THEN filler ELSE list[j]]

\* C10: the result of verify_membership does not depend on the proofs, specs
\* and paired keys below start_index: it is the result of the call with all
\* of them replaced by fixed ones (so two calls that agree from start_index
\* upwards return the same).
C10_LowerLevelsIgnored ==
    (Returned /\ IsMembership) =>
        LET r == verify_membership(Levelled(proofs, FillerProof, FALSE),
                                   Levelled(specs, FillerSpec, FALSE), root,
                                   Levelled(keys, FillerKey, TRUE), value,
                                   start_index, usize_bits)
        IN out.result = r.result /\ out.site = r.site

\* a two-level chain accepted from level 1 over a level 0 that alone would
\* be rejected
C10_Witness ==
    /\ Returned /\ IsMembership
    /\ Len(proofs) = 2 /\ start_index = U64(0, 1)
    /\ out.result = "Ok"
    /\ At(proofs, 0).variant = "Nonexist"
    /\ At(specs, 0) # LevelSpec(0)
    /\ At(keys, 1) # LevelKey(0)

====
